---- MODULE Spec2Model ----
(***************************************************************************)
(* Code Padlocks (src/script.js): time-windowed 6-digit codes derived     *)
(* from a secret with HMAC-SHA256, for seven window sizes, a page timer   *)
(* that refreshes the seven displayed codes, and testCodes, which checks  *)
(* an entered code against the seven current codes.                       *)
(*                                                                         *)
(* JavaScript strings are sequences of one-character strings.             *)
(* The clock (Date.now()) is kept in units of 30000 milliseconds:         *)
(* every window size is a multiple of it, so floor(ms / window) is the    *)
(* same as floor(units / (window / 30000)).                               *)
(*                                                                         *)
(* Four specifications:                                                    *)
(*   Spec      the page with its timer: overlapping callbacks, the clock,  *)
(*             the secret being typed;                                     *)
(*   SpecTest  the page with its Test button (testCodes);                  *)
(*   SpecOTP   generateOTP called directly, over time counters, secrets    *)
(*             and HMAC signatures drawn from bounded sets;                *)
(*   SpecGen   the seven generators called directly, one call after        *)
(*             another, while the clock advances.                          *)
(* The script has no error path of its own; a failure of the platform's    *)
(* crypto primitive is not modelled.                                       *)
(***************************************************************************)
EXTENDS Integers, Sequences, FiniteSets, TLC

VARIABLES
    clock,        \* Date.now(), in units of 30000 ms
    secretField,  \* document.getElementById('secret').value
    codeField,    \* document.getElementById('code').value
    display,      \* innerText of the seven *-otp elements, in source order
    testResult,   \* innerText of the test-result element
    procs,        \* the async activations: timer callbacks and testCodes calls
    hmacSeed,     \* which deterministic function the platform HMAC is
    call,         \* a direct call of generateOTP or of one of the seven generators
    prevCall      \* the direct call before it

vars == <<clock, secretField, codeField, display, testResult, procs, hmacSeed, call, prevCall>>

----------------------------------------------------------------------------
(* JavaScript string and number primitives used by the script *)

HexDigits == <<"0", "1", "2", "3", "4", "5", "6", "7", "8", "9", "a", "b", "c", "d", "e", "f">>

IsHexDigit(c) == \E i \in 1..16 : HexDigits[i] = c

HexDigitValue(c) == (CHOOSE i \in 1..16 : HexDigits[i] = c) - 1

\* Number.prototype.toString(radix) of a non-negative integer
RECURSIVE NatToString(_, _)
NatToString(n, radix) ==
    IF n < radix THEN <<HexDigits[n + 1]>>
    ELSE NatToString(n \div radix, radix) \o <<HexDigits[(n % radix) + 1]>>

\* Number.prototype.toString(radix): a negative number is "-" and its magnitude
NumberToString(n, radix) ==
    IF n < 0 THEN <<"-">> \o NatToString(-n, radix) ELSE NatToString(n, radix)

\* A JavaScript value: a string or a number
JsString(s) == [type |-> "string", chars |-> s, num |-> 0]

JsNumber(n) == [type |-> "number", chars |-> <<>>, num |-> n]

\* v.toString(16): String.prototype.toString ignores its argument and returns
\* the string itself; Number.prototype.toString renders in the radix
toString16(v) == IF v.type = "number" THEN NumberToString(v.num, 16) ELSE v.chars

\* String.prototype.padStart(targetLength, padString) with a one-character pad
padStart(s, targetLength, padChar) ==
    IF Len(s) >= targetLength THEN s
    ELSE [i \in 1..(targetLength - Len(s)) |-> padChar] \o s

Clamp(n, len) == IF n < 0 THEN 0 ELSE IF n > len THEN len ELSE n

\* String.prototype.substring(start, end): zero-based, end exclusive, both
\* clamped to the string, swapped when start > end
substring(s, start, end) ==
    LET a == Clamp(start, Len(s))
        b == Clamp(end, Len(s))
    IN  IF a <= b THEN SubSeq(s, a + 1, b) ELSE SubSeq(s, b + 1, a)

\* String.prototype.replaceAll(' ', '')
replaceAllSpaces(s) == SelectSeq(s, LAMBDA c : c # " ")

\* parseInt(s, 16) of a string of lowercase hex digits (generateHmac renders
\* nothing else). The result can exceed 31 bits, so the number is kept as its
\* base-16 digits, most significant first.
parseInt16(s) == [i \in 1..Len(s) |-> HexDigitValue(s[i])]

\* The value of a base-16 digit sequence that fits 31 bits
RECURSIVE DigitsValue(_)
DigitsValue(ds) ==
    IF ds = <<>> THEN 0
    ELSE DigitsValue(SubSeq(ds, 1, Len(ds) - 1)) * 16 + ds[Len(ds)]

\* n & 0x7fffffff: ToInt32 keeps the low 32 bits (the last 8 hex digits), the
\* mask clears bit 31 (the top bit of the 8th digit from the end)
BitAnd7fffffff(ds) ==
    LET low == IF Len(ds) > 8 THEN SubSeq(ds, Len(ds) - 7, Len(ds)) ELSE ds
    IN  IF Len(low) = 8 THEN DigitsValue(<<low[1] % 8>> \o Tail(low))
        ELSE DigitsValue(low)

----------------------------------------------------------------------------
(* generateHmac and generateOTP *)

\* generateHmac, lines 11-13: the 32 signature bytes rendered as hex, two
\* characters per byte
RECURSIVE hexOfSignature(_)
hexOfSignature(bytes) ==
    IF bytes = <<>> THEN <<>>
    ELSE padStart(NumberToString(Head(bytes), 16), 2, "0") \o hexOfSignature(Tail(bytes))

\* generateOTP line 23: the HMAC message
timeHexOf(time) == padStart(NumberToString(time, 16), 16, "0")

\* generateOTP line 24: the HMAC key
secretHexOf(secret) == padStart(toString16(secret), 16, "0")

\* generateOTP line 26
offsetOf(hmac) == DigitsValue(parseInt16(substring(hmac, Len(hmac) - 1, Len(hmac))))

\* Variant of line 27 that forgets to double the offset (a byte offset used as
\* a character offset)
otpNumberOfByteOffset(hmac) ==
    LET offset == offsetOf(hmac)
    IN  BitAnd7fffffff(parseInt16(substring(hmac, offset, offset + 8))) % 1000000

\* generateOTP line 27
otpNumberOf(hmac) ==
    LET offset == offsetOf(hmac)
    IN  BitAnd7fffffff(parseInt16(substring(hmac, offset * 2, offset * 2 + 8))) % 1000000

\* Variant of line 28 without padStart(6, '0')
otpOfHmacUnpadded(hmac) == NumberToString(otpNumberOf(hmac), 10)

\* generateOTP lines 26-28: the code extracted from the HMAC tag
otpOfHmac(hmac) == padStart(NumberToString(otpNumberOf(hmac), 10), 6, "0")

----------------------------------------------------------------------------
(* The platform HMAC primitive (window.crypto.subtle) *)

\* TextEncoder.encode of the characters the model uses (their ASCII codes)
CharCode(c) ==
    CASE c = " " -> 32
      [] c = "-" -> 45
      [] c = "A" -> 65
      [] c = "B" -> 66
      [] c = "x" -> 120
      [] c = "y" -> 121
      [] c = "z" -> 122
      [] IsHexDigit(c) /\ HexDigitValue(c) < 10 -> 48 + HexDigitValue(c)
      [] OTHER -> 87 + HexDigitValue(c)

RECURSIVE WeightedSum(_)
WeightedSum(s) ==
    IF s = <<>> THEN 0
    ELSE WeightedSum(SubSeq(s, 1, Len(s) - 1)) + Len(s) * CharCode(s[Len(s)])

\* crypto.subtle.sign("HMAC", key, message): a deterministic function of the
\* key bytes and the message bytes to 32 bytes. HMAC-SHA256 itself is the
\* platform's; hmacSeed selects one function of a family. Seed 0 is the
\* function under which every tag is equal (all codes coincide); the other
\* seeds spread the tags.
subtleSign(seed, key, message) ==
    LET h == (WeightedSum(key) * 7 + WeightedSum(message) * 13 + seed) % 251
    IN  [i \in 1..32 |-> IF seed = 0 THEN 0 ELSE (h * i + seed * 29 + i * i) % 256]

\* generateHmac(key, message), lines 7-14
generateHmac(seed, key, message) == hexOfSignature(subtleSign(seed, key, message))

----------------------------------------------------------------------------
(* The seven window sizes, in clock units of 30000 ms *)

monthlyWindow == 86400      \* 2592000000 ms
biWeeklyWindow == 40320     \* 1209600000 ms
weeklyWindow == 20160       \* 604800000 ms
dailyWindow == 2880         \* 86400000 ms
hourlyWindow == 120         \* 3600000 ms
thirtyMinuteWindow == 60    \* 1800000 ms
minutelyWindow == 2         \* 60000 ms

currentMonthSinceEpoch(now) == now \div monthlyWindow

currentBiWeekSinceEpoch(now) == now \div biWeeklyWindow

currentWeekSinceEpoch(now) == now \div weeklyWindow

currentDaySinceEpoch(now) == now \div dailyWindow

currentHourSinceEpoch(now) == now \div hourlyWindow

current30MinutesSinceEpoch(now) == now \div thirtyMinuteWindow

\* Variant of line 97 without the division into windows
currentMinuteUnfloored(now) == now

currentMinuteSinceEpoch(now) == now \div minutelyWindow

\* The order in which the timer callback and testCodes call the seven
\* generators
Granularities == 1..7

\* The window of the g-th generator
Windows ==
    <<monthlyWindow, biWeeklyWindow, weeklyWindow, dailyWindow, hourlyWindow,
      thirtyMinuteWindow, minutelyWindow>>

Names == <<"Monthly", "Bi-Weekly", "Weekly", "Daily", "Hourly", "30-Minute", "Minute">>

\* The time counter the g-th generator passes to generateOTP when Date.now()
\* returns now
timeCounter(g, now) ==
    CASE g = 1 -> currentMonthSinceEpoch(now)
      [] g = 2 -> currentBiWeekSinceEpoch(now)
      [] g = 3 -> currentWeekSinceEpoch(now)
      [] g = 4 -> currentDaySinceEpoch(now)
      [] g = 5 -> currentHourSinceEpoch(now)
      [] g = 6 -> current30MinutesSinceEpoch(now)
      [] OTHER -> currentMinuteSinceEpoch(now)

\* Variant of formatOTP whose second group starts one character late
formatOTPDropDigit(otp) == substring(otp, 0, 3) \o <<" ">> \o substring(otp, 4, Len(otp))

\* formatOTP, lines 106-108
formatOTP(otp) == substring(otp, 0, 3) \o <<" ">> \o substring(otp, 3, Len(otp))

\* codes.find(c => c.fn === code), line 151: the index of the first element
\* equal to code, 0 when there is none
RECURSIVE findFrom(_, _, _)
findFrom(codes, code, i) ==
    IF i > Len(codes) THEN 0
    ELSE IF codes[i] = code THEN i
    ELSE findFrom(codes, code, i + 1)

\* Variant of find that returns the last element equal to code
findLast(codes, code) ==
    IF \E i \in 1..Len(codes) : codes[i] = code
    THEN CHOOSE i \in 1..Len(codes) :
            codes[i] = code /\ \A j \in (i + 1)..Len(codes) : codes[j] # code
    ELSE 0

find(codes, code) == findFrom(codes, code, 1)

\* testCodes, lines 151-156: the text written to test-result
resultText(codes, code) ==
    LET match == find(codes, code)
    IN  IF match # 0 THEN "Code matches " \o Names[match] \o " code"
        ELSE "Code does not match any code"

----------------------------------------------------------------------------
(* Bounds of the model *)

MaxPasses == 2    \* timer callbacks that run (they may overlap)
MaxTests == 1     \* testCodes calls that run
MaxTicks == 1     \* clock advances
MaxSlope == 2     \* signature patterns drawn for a direct generateOTP call

\* An instant at which the 30-minute and the minute windows roll over and
\* the five longer ones do not: 00:30 UTC on day 20790 since the epoch
\* (3 December 2026), in clock units (2880 a day, 60 a half hour)
HalfHour == 20790 * 2880 + 60

\* The page is loaded in the last half minute before HalfHour
StartInstant == HalfHour - 1

\* The HMAC functions considered where codes may coincide
HmacSeeds == {0, 1}

Passes == 1..MaxPasses

Tests == (MaxPasses + 1)..(MaxPasses + MaxTests)

Procs == Passes \cup Tests

\* What the user types into the secret field
SecretInputs == { <<"1", "2", " ", "3", "4">> }

\* The g-th code valid at instant now for the typed secret, as another
\* device running the same page shows it
shownCode(seed, typedSecret, g, now) ==
    formatOTP(otpOfHmac(generateHmac(seed,
        secretHexOf(JsString(replaceAllSpaces(typedSecret))),
        timeHexOf(timeCounter(g, now)))))

\* What the user types into the code field: the monthly or the minute code
\* valid now as displayed, the minute code without the space, or something
\* that is no code
CodeInputs ==
    { shownCode(hmacSeed, secretField, 1, clock),
      shownCode(hmacSeed, secretField, 7, clock),
      replaceAllSpaces(shownCode(hmacSeed, secretField, 7, clock)),
      <<"1", "2", " ", "3">> }

----------------------------------------------------------------------------
(* The page: the timer callback (lines 113-131) and testCodes (137-157) *)

IdleProc ==
    [kind |-> "none", pc |-> "idle", secret |-> <<>>, typed |-> <<>>, code |-> <<>>,
     counters |-> <<>>, key |-> <<>>, message |-> <<>>, otps |-> <<>>]

IdleCall ==
    [pc |-> "idle", fn |-> 0, now |-> 0, time |-> 0, secret |-> JsString(<<>>),
     key |-> <<>>, message |-> <<>>, hmac |-> <<>>, otp |-> <<>>]

Init ==
    /\ clock = StartInstant
    /\ secretField = <<>>
    /\ codeField = <<>>
    /\ display = [g \in Granularities |-> <<>>]
    /\ testResult = ""
    /\ procs = [p \in Procs |-> IdleProc]
    /\ hmacSeed = 1
    /\ call = IdleCall
    /\ prevCall = IdleCall

\* Variant in which each generator call reads the secret field again
secretReadAgain(rec, field) == field

\* The secret an activation passes to the generators: the local constant
\* read once at its start (lines 114, 138)
secretOf(rec, field) == rec.secret

\* The synchronous part of the next generator call: generateXOTP reads
\* Date.now() (lines 37, 47, ..., 97), generateOTP renders the counter and the
\* secret (lines 23-24) and generateHmac is entered (line 25), where the
\* activation suspends until the platform returns the signature.
startNext(rec, now, field) ==
    LET g == Len(rec.otps) + 1
        counter == timeCounter(g, now)
    IN  [rec EXCEPT !.pc = "await",
                    !.counters = Append(@, counter),
                    !.key = secretHexOf(JsString(secretOf(rec, field))),
                    !.message = timeHexOf(counter)]

\* The code generateOTP returns when the pending HMAC completes (lines 25-28)
resolvedOtp(rec) == otpOfHmac(generateHmac(hmacSeed, rec.key, rec.message))

\* The clock advances
Tick ==
    /\ clock < StartInstant + MaxTicks
    /\ clock' = clock + 1
    /\ UNCHANGED <<secretField, codeField, display, testResult, procs, hmacSeed, call, prevCall>>

\* The user types the secret into the empty secret field (once)
EditSecret(s) ==
    /\ secretField = <<>>
    /\ secretField' = s
    /\ UNCHANGED <<clock, codeField, display, testResult, procs, hmacSeed, call, prevCall>>

\* The user types a code into the empty code field (once)
EditCode ==
    /\ codeField = <<>>
    /\ \E c \in CodeInputs : codeField' = c
    /\ UNCHANGED <<clock, secretField, display, testResult, procs, hmacSeed, call, prevCall>>

\* setInterval fires: the callback reads the secret (line 114) and runs up to
\* the first await (line 116). Ticks fire in order.
TimerFire(p) ==
    /\ p \in Passes
    /\ procs[p].pc = "idle"
    /\ \A q \in Passes : q < p => procs[q].pc # "idle"
    /\ procs' = [procs EXCEPT ![p] =
            startNext([IdleProc EXCEPT !.kind = "timer",
                                       !.secret = replaceAllSpaces(secretField)],
                      clock, replaceAllSpaces(secretField))]
    /\ UNCHANGED <<clock, secretField, codeField, display, testResult, hmacSeed, call, prevCall>>

\* testCodes is called: it reads the secret and the code (lines 138-139) and
\* runs up to the first await (line 142)
TestCodesCall(p) ==
    /\ p \in Tests
    /\ procs[p].pc = "idle"
    /\ \A q \in Tests : q < p => procs[q].pc # "idle"
    /\ procs' = [procs EXCEPT ![p] =
            startNext([IdleProc EXCEPT !.kind = "test",
                                       !.secret = replaceAllSpaces(secretField),
                                       !.typed = codeField,
                                       !.code = replaceAllSpaces(codeField)],
                      clock, replaceAllSpaces(secretField))]
    /\ UNCHANGED <<clock, secretField, codeField, display, testResult, hmacSeed, call, prevCall>>

\* An awaited generator completes and the activation runs on to its next
\* await (lines 116-122, 142-148): the next generator reads the clock now.
\* generateHmac suspends twice, on importKey and on sign (lines 9-10); it
\* reads and writes nothing shared in between, so the two are one step.
HmacResolve(p) ==
    /\ procs[p].pc = "await"
    /\ Len(procs[p].otps) < 6
    /\ procs' = [procs EXCEPT ![p] =
            startNext([@ EXCEPT !.otps = Append(@, resolvedOtp(procs[p]))],
                      clock, replaceAllSpaces(secretField))]
    /\ UNCHANGED <<clock, secretField, codeField, display, testResult, hmacSeed, call, prevCall>>

\* The text the callback writes into the seven elements (lines 124-130)
displayOf(otps) == [g \in Granularities |-> formatOTP(otps[g])]

\* The last generator of a timer callback completes: the callback writes the
\* seven elements (lines 124-130) in one synchronous run
TimerFinish(p) ==
    /\ procs[p].pc = "await"
    /\ procs[p].kind = "timer"
    /\ Len(procs[p].otps) = 6
    /\ LET otps == Append(procs[p].otps, resolvedOtp(procs[p]))
       IN  /\ procs' = [procs EXCEPT ![p] = [@ EXCEPT !.pc = "done", !.otps = otps]]
           /\ display' = displayOf(otps)
    /\ UNCHANGED <<clock, secretField, codeField, testResult, hmacSeed, call, prevCall>>

\* The last generator of testCodes completes: the match is looked up and
\* reported (lines 151-156)
TestFinish(p) ==
    /\ procs[p].pc = "await"
    /\ procs[p].kind = "test"
    /\ Len(procs[p].otps) = 6
    /\ LET otps == Append(procs[p].otps, resolvedOtp(procs[p]))
       IN  /\ procs' = [procs EXCEPT ![p] = [@ EXCEPT !.pc = "done", !.otps = otps]]
           /\ testResult' = resultText(otps, procs[p].code)
    /\ UNCHANGED <<clock, secretField, codeField, display, hmacSeed, call, prevCall>>

\* The page with its timer
Next ==
    \/ Tick
    \/ \E s \in SecretInputs : EditSecret(s)
    \/ \E p \in Passes : TimerFire(p)
    \/ \E p \in Passes : HmacResolve(p)
    \/ \E p \in Passes : TimerFinish(p)

Spec == Init /\ [][Next]_vars

\* The page with its Test button
NextTest ==
    \/ Tick
    \/ \E s \in SecretInputs : EditSecret(s)
    \/ EditCode
    \/ \E p \in Tests : TestCodesCall(p)
    \/ \E p \in Tests : HmacResolve(p)
    \/ \E p \in Tests : TestFinish(p)

InitTest ==
    /\ clock = StartInstant
    /\ secretField = <<>>
    /\ codeField = <<>>
    /\ display = [g \in Granularities |-> <<>>]
    /\ testResult = ""
    /\ procs = [p \in Procs |-> IdleProc]
    /\ hmacSeed \in HmacSeeds
    /\ call = IdleCall
    /\ prevCall = IdleCall

SpecTest == InitTest /\ [][NextTest]_vars

----------------------------------------------------------------------------
(* Direct calls of generateOTP (lines 22-29) with the HMAC tag left open *)

\* Arguments passed as the time counter
TimeArgs == {-1, 0, 255, timeCounter(7, StartInstant)}

\* Arguments passed as the secret: strings, as the page passes them, and
\* numbers, as the documentation of generateOTP declares
SecretArgs ==
    { JsString(<<>>),
      JsString(<<"1", "2", "3", "4">>),
      JsString(<<"0", "0", "0", "0", "0", "0", "0", "0", "0", "0", "0", "0", "0", "0", "0", "1">>),
      JsString(<<"1", "2", "3", "4", "5", "6", "7", "8", "9", "0", "1", "2", "3", "4", "5", "6", "7">>),
      JsString(<<"A", "B">>),
      JsString(<<"x", "y", "z">>),
      JsNumber(255) }

\* The 32-byte signatures the platform may return: the last byte takes every
\* low nibble (the offset), the others follow a pattern base + step * i
BaseBytes == {0, 9, 128, 255}

LastBytes == {16 * hi + lo : hi \in {0, 10}, lo \in 0..15}

Signatures ==
    { [i \in 1..32 |-> IF i = 32 THEN last ELSE (base + slope * 37 * i) % 256] :
        slope \in 0..MaxSlope, base \in BaseBytes, last \in LastBytes }

InitOTP ==
    /\ clock = StartInstant
    /\ secretField = <<>>
    /\ codeField = <<>>
    /\ display = [g \in Granularities |-> <<>>]
    /\ testResult = ""
    /\ procs = [p \in Procs |-> IdleProc]
    /\ hmacSeed = 1
    /\ \E t \in TimeArgs, s \in SecretArgs :
            call = [IdleCall EXCEPT !.time = t, !.secret = s]
    /\ prevCall = IdleCall

\* generateOTP(time, secret) runs to its await (lines 23-25)
CallGenerateOTP ==
    /\ call.pc = "idle"
    /\ call' = [call EXCEPT !.pc = "await",
                            !.key = secretHexOf(call.secret),
                            !.message = timeHexOf(call.time)]
    /\ UNCHANGED <<clock, secretField, codeField, display, testResult, procs, hmacSeed, prevCall>>

\* The platform returns a signature; generateHmac renders it and generateOTP
\* returns the code (lines 11-13, 26-28)
HmacReturns(sig) ==
    /\ call.pc = "await"
    /\ LET hmac == hexOfSignature(sig)
       IN  call' = [call EXCEPT !.pc = "returned", !.hmac = hmac, !.otp = otpOfHmac(hmac)]
    /\ UNCHANGED <<clock, secretField, codeField, display, testResult, procs, hmacSeed, prevCall>>

NextOTP ==
    \/ CallGenerateOTP
    \/ \E sig \in Signatures : HmacReturns(sig)

SpecOTP == InitOTP /\ [][NextOTP]_vars

----------------------------------------------------------------------------
(* Direct calls of the seven generators (lines 36-99), one after another *)

\* Secrets passed to the generators
GeneratorSecrets == { <<>>, <<"1", "2", "3", "4">> }

InitGen ==
    /\ clock = StartInstant - 1
    /\ secretField = <<>>
    /\ codeField = <<>>
    /\ display = [g \in Granularities |-> <<>>]
    /\ testResult = ""
    /\ procs = [p \in Procs |-> IdleProc]
    /\ hmacSeed = 1
    /\ call = IdleCall
    /\ prevCall = IdleCall

\* generateXOTP(secret) is called: it reads Date.now() and runs generateOTP to
\* its await (lines 37-38, 23-25)
CallGenerator(g, s) ==
    /\ call.pc \in {"idle", "returned"}
    /\ prevCall' = call
    /\ call' = [IdleCall EXCEPT !.pc = "await", !.fn = g, !.now = clock,
                                !.time = timeCounter(g, clock),
                                !.secret = JsString(s),
                                !.key = secretHexOf(JsString(s)),
                                !.message = timeHexOf(timeCounter(g, clock))]
    /\ UNCHANGED <<clock, secretField, codeField, display, testResult, procs, hmacSeed>>

\* The HMAC completes and the generator returns its code (lines 25-28)
GeneratorReturns ==
    /\ call.pc = "await"
    /\ LET hmac == generateHmac(hmacSeed, call.key, call.message)
       IN  call' = [call EXCEPT !.pc = "returned", !.hmac = hmac, !.otp = otpOfHmac(hmac)]
    /\ UNCHANGED <<clock, secretField, codeField, display, testResult, procs, hmacSeed, prevCall>>

NextGen ==
    \/ Tick
    \/ \E g \in Granularities, s \in GeneratorSecrets : CallGenerator(g, s)
    \/ GeneratorReturns

SpecGen == InitGen /\ [][NextGen]_vars

----------------------------------------------------------------------------
(* Properties *)

DecimalDigits == {"0", "1", "2", "3", "4", "5", "6", "7", "8", "9"}

\* C1: every code generateOTP returns, whatever the time counter, the secret
\* and the HMAC tag, is exactly 6 decimal digits, with a value in 0..999999.
C1_SixDecimalDigits ==
    call.pc = "returned" =>
        /\ Len(call.otp) = 6
        /\ \A i \in 1..6 : call.otp[i] \in DecimalDigits
        /\ LET d(i) == HexDigitValue(call.otp[i])
               value == d(1) * 100000 + d(2) * 10000 + d(3) * 1000 + d(4) * 100 + d(5) * 10 + d(6)
           IN  value \in 0..999999

\* A call with a negative counter and a 17-character secret has returned a
\* code below 100000 that is not 000000: the zero padding has acted
C1_Witness ==
    /\ call.pc = "returned"
    /\ call.time < 0
    /\ Len(call.key) > 16
    /\ call.otp[1] = "0"
    /\ \E i \in 2..6 : call.otp[i] # "0"

\* C2: all seven time counters of one finished pass are floor(t / window) for
\* one single instant t.
C2_CountersOfOneInstant ==
    \A p \in Passes :
        procs[p].pc = "done" =>
            \E t \in (StartInstant - 2)..(StartInstant + MaxTicks + 2) :
                \A g \in Granularities : procs[p].counters[g] = t \div Windows[g]

\* The label testCodes is to report for activation p: that of the first
\* candidate, in the order Monthly .. Minute, equal to the entered code with
\* its spaces removed; the no-match text when there is none
ExpectedResult(p) ==
    LET code == replaceAllSpaces(procs[p].typed)
        matches == {g \in Granularities : procs[p].otps[g] = code}
    IN  IF matches = {} THEN "Code does not match any code"
        ELSE LET first == CHOOSE g \in matches : \A h \in matches : g <= h
             IN  CASE first = 1 -> "Code matches Monthly code"
                   [] first = 2 -> "Code matches Bi-Weekly code"
                   [] first = 3 -> "Code matches Weekly code"
                   [] first = 4 -> "Code matches Daily code"
                   [] first = 5 -> "Code matches Hourly code"
                   [] first = 6 -> "Code matches 30-Minute code"
                   [] OTHER -> "Code matches Minute code"

\* C3: the reported result is the label of the first of the seven candidates
\* equal to the space-stripped entered code, and the no-match text exactly
\* when no candidate equals it.
C3_FirstMatchReported ==
    \/ testResult = "" /\ \A p \in Tests : procs[p].pc # "done"
    \/ \E p \in Tests : procs[p].pc = "done" /\ testResult = ExpectedResult(p)

\* The entered code, typed with its space, equals the minute code and none of
\* the six earlier candidates, and Minute is reported
C3_Witness ==
    \E p \in Tests :
        /\ procs[p].pc = "done"
        /\ Len(procs[p].typed) = 7
        /\ replaceAllSpaces(procs[p].typed) = procs[p].otps[7]
        /\ \A g \in 1..6 : procs[p].otps[g] # procs[p].otps[7]
        /\ testResult = "Code matches Minute code"

\* A secret that is a non-empty string of hex digits
WellFormedSecret(s) == s # <<>> /\ \A i \in 1..Len(s) : IsHexDigit(s[i])

\* C4: an activation whose secret is empty or malformed produces no code.
C4_MalformedSecretGivesNoCode ==
    \A p \in Passes :
        (procs[p].kind # "none" /\ ~WellFormedSecret(procs[p].secret)) =>
            procs[p].otps = <<>>

\* C5: the key passed to generateHmac is exactly 16 lowercase hex digits.
C5_KeyIs16HexDigits ==
    call.pc \in {"await", "returned"} =>
        /\ Len(call.key) = 16
        /\ \A i \in 1..Len(call.key) : IsHexDigit(call.key[i])

\* C6: generateOTP called with a negative time counter returns no code.
C6_NegativeCounterRejected ==
    call.time < 0 => call.pc # "returned"

\* C7: with the same secret, two calls of a generator at instants of the same
\* window return the same code, and so do two calls with the same time counter.
C7_SameWindowSameCode ==
    (call.pc = "returned" /\ prevCall.pc = "returned" /\ call.secret = prevCall.secret) =>
        /\ (call.fn = prevCall.fn
                /\ call.now \div Windows[call.fn] = prevCall.now \div Windows[call.fn])
            => call.otp = prevCall.otp
        /\ call.time = prevCall.time => call.otp = prevCall.otp

\* Two calls of generateMinutelyOTP at different instants of the same minute
\* have returned
C7_Witness ==
    /\ call.pc = "returned"
    /\ prevCall.pc = "returned"
    /\ call.fn = 7
    /\ prevCall.fn = 7
    /\ call.secret = prevCall.secret
    /\ call.now # prevCall.now
    /\ call.now \div minutelyWindow = prevCall.now \div minutelyWindow

\* C8: a displayed code is the first three digits of the 6-digit code, one
\* space, and its last three digits, and removing the spaces gives the code
\* back.
C8_FormatRoundTrip ==
    \A g \in Granularities :
        display[g] # <<>> =>
            /\ Len(display[g]) = 7
            /\ display[g][4] = " "
            /\ \E p \in Passes :
                /\ procs[p].pc = "done"
                /\ SubSeq(display[g], 1, 3) = SubSeq(procs[p].otps[g], 1, 3)
                /\ SubSeq(display[g], 5, 7) = SubSeq(procs[p].otps[g], 4, 6)
                /\ replaceAllSpaces(display[g]) = procs[p].otps[g]

\* A pass has written the display, with a code that starts with 0
C8_Witness ==
    \E p \in Passes, g \in Granularities :
        /\ procs[p].pc = "done"
        /\ display[g] # <<>>
        /\ replaceAllSpaces(display[g]) = procs[p].otps[g]
        /\ display[g][1] = "0"

\* C9: the returned code is the reference truncation of the 64-character tag:
\* offset = value of the last character; the 8 characters from index
\* 2 * offset lie inside the tag; read big-endian with the top bit cleared,
\* modulo 1000000, as 6 digits.
C9_ReferenceTruncation ==
    call.pc = "returned" =>
        /\ Len(call.hmac) = 64
        /\ LET offset == HexDigitValue(call.hmac[64])
               d(k) == HexDigitValue(call.hmac[2 * offset + k])
               value == (d(1) % 8) * 16^7 + d(2) * 16^6 + d(3) * 16^5 + d(4) * 16^4
                            + d(5) * 16^3 + d(6) * 16^2 + d(7) * 16 + d(8)
               n == value % 1000000
           IN  /\ offset \in 0..15
               /\ 2 * offset + 8 <= 38
               /\ value \in 0..2147483647
               /\ call.otp = [k \in 1..6 |-> HexDigits[((n \div 10^(6 - k)) % 10) + 1]]

\* A call has returned for a tag whose offset is 15 and whose extracted
\* characters have the top bit set
C9_Witness ==
    /\ call.pc = "returned"
    /\ HexDigitValue(call.hmac[64]) = 15
    /\ HexDigitValue(call.hmac[31]) >= 8

\* The code of pass p for generator g, from the secret p read at its start
\* and the counter it computed
codeOfPass(p, g) ==
    otpOfHmac(generateHmac(hmacSeed,
        secretHexOf(JsString(procs[p].secret)),
        timeHexOf(procs[p].counters[g])))

\* C10: once a pass has written the display, the seven fields hold the seven
\* codes of one single finished pass, each computed from the secret that pass
\* read at its start.
C10_DisplayOfOnePass ==
    \/ \A g \in Granularities : display[g] = <<>>
    \/ \E p \in Passes :
        /\ procs[p].pc = "done"
        /\ \A g \in Granularities : display[g] = formatOTP(procs[p].otps[g])
        /\ \A g \in Granularities : procs[p].otps[g] = codeOfPass(p, g)

\* Two passes overlapped, the secret was typed between their starts, and the
\* earlier pass wrote the display last
C10_Witness ==
    /\ procs[1].pc = "done"
    /\ procs[2].pc = "done"
    /\ procs[1].secret # procs[2].secret
    /\ \A g \in Granularities : display[g] = formatOTP(procs[1].otps[g])
    /\ \E g \in Granularities : procs[1].otps[g] # procs[2].otps[g]

====
